---- MODULE Spec2Model ----
(***************************************************************************)
(* A model of convert_to_structured_logger.py: the per-file rewrite of     *)
(* legacy logging calls (Timber.tag(..).x(..) and Log.x(..)) into          *)
(* StructuredLogger calls.                                                 *)
(*                                                                         *)
(* Text.  A file text is a sequence of lines (the text split at '\n');     *)
(* a line is a sequence of chunks (strings) whose concatenation is the     *)
(* line.  The characters the program's patterns look at one by one are     *)
(* chunks of their own: ")" , "," , the double quote, "{" and runs of      *)
(* white space.  The fixed words the patterns look for ("Timber.tag(",     *)
(* "Log.d(", "fun load(", an import statement, ...) are one chunk each.    *)
(* No other chunk starts or ends with white space or holds one of the      *)
(* characters above.  A regular expression of the program is modelled by   *)
(* what it does on such a chunked line.  A write that fails leaves a       *)
(* prefix of the text, character by character: the last chunk of such a    *)
(* text may be the first characters of a chunk.                            *)
(***************************************************************************)
EXTENDS Integers, Sequences, FiniteSets, TLC

VARIABLES
    file_path,      \* LogConverter.file_path
    disk,           \* the text of the file at file_path
    content,        \* LogConverter.content
    class_name,     \* LogConverter.class_name
    feature_tag,    \* LogConverter.feature_tag
    changes_made,   \* LogConverter.changes_made
    rets,           \* the values convert() returned, one per run, in order
    hist,           \* the text on disk before each run, in order
    src             \* the description the input text was written from

vars == <<file_path, disk, content, class_name, feature_tag, changes_made,
          rets, hist, src>>

(***************************************************************************)
(* Bounds of the exploration.                                              *)
(***************************************************************************)
MaxCalls == 2       \* call lines in a generated file
MaxRuns == 2        \* runs of convert() on the same file
MaxGap == 2         \* filler lines between a declaration and a call

(***************************************************************************)
(* Sequence helpers.                                                       *)
(***************************************************************************)
Last(s) == s[Len(s)]

Front(s) == SubSeq(s, 1, Len(s) - 1)

\* The first index i >= from with s[i] in S, 0 if there is none.
FirstIn(s, S, from) ==
    IF \E i \in from..Len(s) : s[i] \in S
    THEN CHOOSE i \in from..Len(s) :
             s[i] \in S /\ \A k \in from..(i - 1) : s[k] \notin S
    ELSE 0

\* The last index i with s[i] in S, 0 if there is none.
LastIn(s, S) ==
    IF \E i \in 1..Len(s) : s[i] \in S
    THEN CHOOSE i \in 1..Len(s) :
             s[i] \in S /\ \A k \in (i + 1)..Len(s) : s[k] \notin S
    ELSE 0

\* How many elements of s are in S.
RECURSIVE CountIn(_, _)
CountIn(s, S) ==
    IF s = <<>> THEN 0
    ELSE (IF s[1] \in S THEN 1 ELSE 0) + CountIn(Tail(s), S)

(***************************************************************************)
(* Characters: how each chunk is spelled.                                  *)
(***************************************************************************)
Spell ==
    ("import timber.log.Timber" :>
        <<"i", "m", "p", "o", "r", "t", " ", "t", "i", "m", "b", "e", "r",
          ".", "l", "o", "g", ".", "T", "i", "m", "b", "e", "r">>)
    @@ ("import android.util.Log" :>
        <<"i", "m", "p", "o", "r", "t", " ", "a", "n", "d", "r", "o", "i",
          "d", ".", "u", "t", "i", "l", ".", "L", "o", "g">>)
    @@ ("import com.expensemanager.app.utils.logging.StructuredLogger" :>
        <<"i", "m", "p", "o", "r", "t", " ", "c", "o", "m", ".", "e", "x",
          "p", "e", "n", "s", "e", "m", "a", "n", "a", "g", "e", "r", ".",
          "a", "p", "p", ".", "u", "t", "i", "l", "s", ".", "l", "o", "g",
          "g", "i", "n", "g", ".", "S", "t", "r", "u", "c", "t", "u", "r",
          "e", "d", "L", "o", "g", "g", "e", "r">>)
    @@ ("import java.util.Date" :>
        <<"i", "m", "p", "o", "r", "t", " ", "j", "a", "v", "a", ".", "u",
          "t", "i", "l", ".", "D", "a", "t", "e">>)
    @@ ("private val logger = StructuredLogger(" :>
        <<"p", "r", "i", "v", "a", "t", "e", " ", "v", "a", "l", " ", "l",
          "o", "g", "g", "e", "r", " ", "=", " ", "S", "t", "r", "u", "c",
          "t", "u", "r", "e", "d", "L", "o", "g", "g", "e", "r", "(">>)
    @@ ("private val logger: StructuredLogger" :>
        <<"p", "r", "i", "v", "a", "t", "e", " ", "v", "a", "l", " ", "l",
          "o", "g", "g", "e", "r", ":", " ", "S", "t", "r", "u", "c", "t",
          "u", "r", "e", "d", "L", "o", "g", "g", "e", "r">>)
    @@ ("Timber.tag(" :>
        <<"T", "i", "m", "b", "e", "r", ".", "t", "a", "g", "(">>)
    @@ (".d(" :>
        <<".", "d", "(">>)
    @@ (".e(" :>
        <<".", "e", "(">>)
    @@ (".i(" :>
        <<".", "i", "(">>)
    @@ (".w(" :>
        <<".", "w", "(">>)
    @@ (".v(" :>
        <<".", "v", "(">>)
    @@ ("Log.d(" :>
        <<"L", "o", "g", ".", "d", "(">>)
    @@ ("Log.e(" :>
        <<"L", "o", "g", ".", "e", "(">>)
    @@ ("Log.i(" :>
        <<"L", "o", "g", ".", "i", "(">>)
    @@ ("Log.w(" :>
        <<"L", "o", "g", ".", "w", "(">>)
    @@ ("Log.v(" :>
        <<"L", "o", "g", ".", "v", "(">>)
    @@ ("// uses Timber" :>
        <<"/", "/", " ", "u", "s", "e", "s", " ", "T", "i", "m", "b", "e",
          "r">>)
    @@ ("============ sync ============" :>
        <<"=", "=", "=", "=", "=", "=", "=", "=", "=", "=", "=", "=", " ",
          "s", "y", "n", "c", " ", "=", "=", "=", "=", "=", "=", "=", "=",
          "=", "=", "=", "=">>)
    @@ ("[DEBUG] state" :>
        <<"[", "D", "E", "B", "U", "G", "]", " ", "s", "t", "a", "t", "e">>)
    @@ ("[debug] state" :>
        <<"[", "d", "e", "b", "u", "g", "]", " ", "s", "t", "a", "t", "e">>)
    @@ ("println fallback" :>
        <<"p", "r", "i", "n", "t", "l", "n", " ", "f", "a", "l", "l", "b",
          "a", "c", "k">>)
    @@ ("TODO remove" :>
        <<"T", "O", "D", "O", " ", "r", "e", "m", "o", "v", "e">>)
    @@ ("fixme later" :>
        <<"f", "i", "x", "m", "e", " ", "l", "a", "t", "e", "r">>)
    @@ ("Testing sync" :>
        <<"T", "e", "s", "t", "i", "n", "g", " ", "s", "y", "n", "c">>)
    @@ ("debugging sync" :>
        <<"d", "e", "b", "u", "g", "g", "i", "n", "g", " ", "s", "y", "n",
          "c">>)
    @@ ("All keys in prefs" :>
        <<"A", "l", "l", " ", "k", "e", "y", "s", " ", "i", "n", " ", "p",
          "r", "e", "f", "s">>)
    @@ ("Inclusion states JSON dump" :>
        <<"I", "n", "c", "l", "u", "s", "i", "o", "n", " ", "s", "t", "a",
          "t", "e", "s", " ", "J", "S", "O", "N", " ", "d", "u", "m", "p">>)
    @@ ("fun load(" :>
        <<"f", "u", "n", " ", "l", "o", "a", "d", "(">>)
    @@ ("fun save(" :>
        <<"f", "u", "n", " ", "s", "a", "v", "e", "(">>)
    @@ ("class Foo" :>
        <<"c", "l", "a", "s", "s", " ", "F", "o", "o">>)
    @@ ("LogConfig.FeatureTags.APP" :>
        <<"L", "o", "g", "C", "o", "n", "f", "i", "g", ".", "F", "e", "a",
          "t", "u", "r", "e", "T", "a", "g", "s", ".", "A", "P", "P">>)
    @@ ("LogConfig.FeatureTags.DATABASE" :>
        <<"L", "o", "g", "C", "o", "n", "f", "i", "g", ".", "F", "e", "a",
          "t", "u", "r", "e", "T", "a", "g", "s", ".", "D", "A", "T", "A",
          "B", "A", "S", "E">>)
    @@ ("Foo" :>
        <<"F", "o", "o">>)
    @@ ("FooRepository" :>
        <<"F", "o", "o", "R", "e", "p", "o", "s", "i", "t", "o", "r", "y">>)
    @@ ("logger.debug(" :>
        <<"l", "o", "g", "g", "e", "r", ".", "d", "e", "b", "u", "g", "(">>)
    @@ ("logger.error(" :>
        <<"l", "o", "g", "g", "e", "r", ".", "e", "r", "r", "o", "r", "(">>)
    @@ ("logger.info(" :>
        <<"l", "o", "g", "g", "e", "r", ".", "i", "n", "f", "o", "(">>)
    @@ ("logger.warn(" :>
        <<"l", "o", "g", "g", "e", "r", ".", "w", "a", "r", "n", "(">>)
    @@ ("load" :>
        <<"l", "o", "a", "d">>)
    @@ ("save" :>
        <<"s", "a", "v", "e">>)
    @@ ("unknown" :>
        <<"u", "n", "k", "n", "o", "w", "n">>)
    @@ ("boom" :>
        <<"b", "o", "o", "m">>)
    @@ ("a" :>
        <<"a">>)
    @@ ("b" :>
        <<"b">>)
    @@ ("x" :>
        <<"x">>)
    @@ ("+" :>
        <<"+">>)
    @@ ("f(" :>
        <<"f", "(">>)
    @@ ("e" :>
        <<"e">>)
    @@ (";" :>
        <<";">>)
    @@ ("TAG" :>
        <<"T", "A", "G">>)
    @@ ("val n = 1" :>
        <<"v", "a", "l", " ", "n", " ", "=", " ", "1">>)
    @@ ("}" :>
        <<"}">>)
    @@ ("{" :>
        <<"{">>)
    @@ (")" :>
        <<")">>)
    @@ ("," :>
        <<",">>)
    @@ ("\"" :>
        <<"\"">>)
    @@ ("        " :>
        <<" ", " ", " ", " ", " ", " ", " ", " ">>)

\* The string the characters cs spell.
RECURSIVE Glue(_)
Glue(cs) == IF cs = <<>> THEN "" ELSE cs[1] \o Glue(Tail(cs))

\* chunk[:n]
Cut(chunk, n) == Glue(SubSeq(Spell[chunk], 1, n))

\* The chunk and each of its prefixes of at least n characters: the strings
\* chunk[:m] in which a pattern that matches chunk up to character n matches.
Cover(chunk, n) == {Cut(chunk, m) : m \in n..Len(Spell[chunk])}

Spelled ==
    UNION { {<<Cut(c, n), SubSeq(Spell[c], 1, n)>> : n \in 1..Len(Spell[c])} :
            c \in DOMAIN Spell }

\* The characters of a chunk or of the first characters of a chunk.
Chars == [t \in {p[1] : p \in Spelled} |-> (CHOOSE p \in Spelled : p[1] = t)[2]]

(***************************************************************************)
(* Chunks.                                                                 *)
(***************************************************************************)
Indent == "        "

\* The runs of blanks: the indentation and what a cut leaves of it.
WhiteSpace == Cover(Indent, 1)

\* str.strip() of a chunked text.
RECURSIVE lstrip(_)
lstrip(s) ==
    IF s # <<>> /\ s[1] \in WhiteSpace THEN lstrip(Tail(s)) ELSE s

RECURSIVE rstrip(_)
rstrip(s) ==
    IF s # <<>> /\ Last(s) \in WhiteSpace THEN rstrip(Front(s)) ELSE s

strip(s) == rstrip(lstrip(s))

ImportTimber == "import timber.log.Timber"

ImportLog == "import android.util.Log"

ImportStructured == "import com.expensemanager.app.utils.logging.StructuredLogger"

ImportOther == "import java.util.Date"

FieldOpen == "private val logger = StructuredLogger("

FieldColon == "private val logger: StructuredLogger"

LevelLetters == {"d", "e", "i", "w", "v"}

TimberOpen == "Timber.tag("

\* ".d(", ".e(", ...: what follows the tag's closing parenthesis in Form A.
TimberLevelOpen(l) == "." \o l \o "("

\* "Log.d(", "Log.e(", ...: the start of a Form B call.
LogOpen(l) == "Log." \o l \o "("

TimberLevelOpens == {TimberLevelOpen(l) : l \in LevelLetters}

LogOpens == {LogOpen(l) : l \in LevelLetters}

\* The level letter of a ".x(" or "Log.x(" chunk.
LetterOf(tok) ==
    CHOOSE l \in LevelLetters : tok = TimberLevelOpen(l) \/ tok = LogOpen(l)

\* The needles of Python's `needle in text` tests.
Needles ==
    {"Timber", "Timber.tag", "Log.d", "Log.e",
     "private val logger = StructuredLogger", "private val logger:",
     ImportStructured}

\* By needle, the chunks, whole or cut, that hold it: the needle ends at the
\* given character of the whole chunk.
Holding ==
    [needle \in Needles |->
        CASE needle = "Timber" ->
                Cover(TimberOpen, 6) \cup Cover(ImportTimber, 24)
                    \cup Cover("// uses Timber", 14)
          [] needle = "Timber.tag" -> Cover(TimberOpen, 10)
          [] needle = "Log.d" -> Cover(LogOpen("d"), 5)
          [] needle = "Log.e" -> Cover(LogOpen("e"), 5)
          [] needle = "private val logger = StructuredLogger" -> Cover(FieldOpen, 37)
          [] needle = "private val logger:" -> Cover(FieldColon, 19)
          [] needle = ImportStructured -> Cover(ImportStructured, 60)]

\* The chunks in which Python's `needle in text` finds the needle.
SubstringHits(needle) == Holding[needle]

InLine(needle, line) ==
    \E j \in 1..Len(line) : line[j] \in SubstringHits(needle)

InText(needle, text) ==
    \E i \in 1..Len(text) : InLine(needle, text[i])

(***************************************************************************)
(* UNNECESSARY_PATTERNS and should_remove_log.                             *)
(***************************************************************************)
UNNECESSARY_PATTERNS ==
    << "============.*============", "\\[DEBUG\\]", "println", "Log\\.v\\(",
       "TODO|FIXME", "Testing|Debugging", "All keys in",
       "Inclusion states JSON" >>

\* By pattern, the chunks, whole or cut, in which it matches: the leftmost
\* match ends at the given character of the whole chunk.
Matching ==
    [pattern \in {UNNECESSARY_PATTERNS[i] : i \in 1..Len(UNNECESSARY_PATTERNS)} |->
        CASE pattern = "============.*============" ->
                Cover("============ sync ============", 30)
          [] pattern = "\\[DEBUG\\]" ->
                Cover("[DEBUG] state", 7) \cup Cover("[debug] state", 7)
          [] pattern = "println" -> Cover("println fallback", 7)
          [] pattern = "Log\\.v\\(" -> Cover(LogOpen("v"), 6)
          [] pattern = "TODO|FIXME" ->
                Cover("TODO remove", 4) \cup Cover("fixme later", 5)
          [] pattern = "Testing|Debugging" ->
                Cover("Testing sync", 7) \cup Cover("debugging sync", 9)
          [] pattern = "All keys in" -> Cover("All keys in prefs", 11)
          [] pattern = "Inclusion states JSON" ->
                Cover("Inclusion states JSON dump", 21)]

\* The chunks in which re.search(pattern, chunk, re.IGNORECASE) matches.
PatternHits(pattern) == Matching[pattern]

RECURSIVE any_pattern(_, _)
any_pattern(patterns, log_line) ==
    IF patterns = <<>> THEN FALSE
    ELSE IF \E j \in 1..Len(log_line) : log_line[j] \in PatternHits(patterns[1])
         THEN TRUE
         ELSE any_pattern(Tail(patterns), log_line)

should_remove_log(log_line) == any_pattern(UNNECESSARY_PATTERNS, log_line)

(***************************************************************************)
(* extract_method_name.                                                    *)
(***************************************************************************)
Window == 50

\* The name captured by fun\s+(\w+)\s*\( in a chunk, "" if it does not match.
FunName(tok) ==
    CASE tok = "fun load(" -> "load"
      [] tok = "fun save(" -> "save"
      [] OTHER -> ""

FunChunks == {"fun load(", "fun save("}

Max(a, b) == IF a > b THEN a ELSE b

\* for i in range(line_num - 1, max(0, line_num - 50), -1): lines[i], where
\* Python's lines[i] is line i + 1 of the text.
RECURSIVE scan_back(_, _, _)
scan_back(lines, i, stop) ==
    IF i <= stop THEN "unknown"
    ELSE LET j == FirstIn(lines[i + 1], FunChunks, 1)
         IN  IF j # 0 THEN FunName(lines[i + 1][j])
             ELSE scan_back(lines, i - 1, stop)

extract_method_name(lines, line_num) ==
    scan_back(lines, line_num - 1, Max(0, line_num - Window))

(***************************************************************************)
(* convert_log_call.                                                       *)
(***************************************************************************)
\* A table that gives the verbose letter a level name of its own.
level_map_verbose(level) ==
    CASE level = "d" -> "debug"
      [] level = "e" -> "error"
      [] level = "i" -> "info"
      [] level = "w" -> "warn"
      [] level = "v" -> "verbose"
      [] OTHER -> "debug"

level_map(level) ==
    CASE level = "d" -> "debug"
      [] level = "e" -> "error"
      [] level = "i" -> "info"
      [] level = "w" -> "warn"
      [] level = "v" -> "debug"
      [] OTHER -> "debug"

\* Whether Timber\.tag\([^)]+\)\.([deiwv])\((.*)\) matches from index p of
\* fm on; q is where the first ")" after p is.
timber_at(fm, p, q) ==
    /\ fm[p] = TimberOpen
    /\ q > p + 1
    /\ q < Len(fm)
    /\ fm[q + 1] \in TimberLevelOpens
    /\ LastIn(fm, {")"}) >= q + 2

timber_ok(fm, p) == timber_at(fm, p, FirstIn(fm, {")"}, p + 1))

timber_groups(fm, p, q) ==
    [at |-> p, level |-> LetterOf(fm[q + 1]),
     message |-> SubSeq(fm, q + 2, LastIn(fm, {")"}) - 1)]

\* The leftmost index of S, 0 if S is empty.
Leftmost(S) == IF S = {} THEN 0 ELSE CHOOSE p \in S : \A k \in S : p <= k

timber_found(fm, p) ==
    IF p = 0 THEN [at |-> 0]
    ELSE timber_groups(fm, p, FirstIn(fm, {")"}, p + 1))

\* re.search(r'Timber\.tag\([^)]+\)\.([deiwv])\((.*)\)', full_match):
\* [at |-> 0] if there is no match, else the level and the message.
timber_match(fm) ==
    timber_found(fm, Leftmost({p \in 1..Len(fm) : timber_ok(fm, p)}))

\* The index after the white space that starts at index s of fm.
RECURSIVE skip_space(_, _)
skip_space(fm, s) ==
    IF s <= Len(fm) /\ fm[s] \in WhiteSpace THEN skip_space(fm, s + 1) ELSE s

\* Whether Log\.([deiwv])\("([^"]+)",\s*(.*)\) matches from index p of fm
\* on; close is where the first double quote after the opening one is.
log_at(fm, p, close) ==
    /\ fm[p] \in LogOpens
    /\ p + 1 <= Len(fm)
    /\ fm[p + 1] = "\""
    /\ close > p + 2
    /\ close < Len(fm)
    /\ fm[close + 1] = ","
    /\ LastIn(fm, {")"}) >= skip_space(fm, close + 2)

log_ok(fm, p) == log_at(fm, p, FirstIn(fm, {"\""}, p + 2))

log_groups(fm, p, close) ==
    [at |-> p, level |-> LetterOf(fm[p]),
     tag |-> SubSeq(fm, p + 2, close - 1),
     message |-> SubSeq(fm, skip_space(fm, close + 2), LastIn(fm, {")"}) - 1)]

log_found(fm, p) ==
    IF p = 0 THEN [at |-> 0]
    ELSE log_groups(fm, p, FirstIn(fm, {"\""}, p + 2))

\* re.search(r'Log\.([deiwv])\("([^"]+)",\s*(.*)\)', full_match).
log_match(fm) ==
    log_found(fm, Leftmost({p \in 1..Len(fm) : log_ok(fm, p)}))

\* f'logger.{method}("{method_name}", {msg}, {exception})'
call3(method, method_name, msg, exception) ==
    <<"logger." \o method \o "(", "\"", method_name, "\"", ",", " ">>
        \o msg \o <<",", " ">> \o exception \o <<")">>

\* f'logger.{method}("{method_name}", {message})'
call2(method, method_name, message) ==
    <<"logger." \o method \o "(", "\"", method_name, "\"", ",", " ">>
        \o message \o <<")">>

\* The Timber branch: message.split(',', 1).
\* The Timber branch without the exchange of the two parts: the part before
\* the first comma is passed as the message.
timber_converted_unswapped(level, message, method, method_name, c, line_num) ==
    [text |-> IF method = "error" /\ c # 0
              THEN call3(method, method_name,
                         strip(SubSeq(message, 1, c - 1)),
                         strip(SubSeq(message, c + 1, Len(message))))
              ELSE call2(method, method_name, message),
     log |-> << [line |-> line_num,
                 what |-> "Converted Timber." \o level
                            \o "() to logger." \o method \o "()"] >>]

timber_converted(level, message, method, method_name, c, line_num) ==
    [text |-> IF method = "error" /\ c # 0
              THEN call3(method, method_name,
                         strip(SubSeq(message, c + 1, Len(message))),
                         strip(SubSeq(message, 1, c - 1)))
              ELSE call2(method, method_name, message),
     log |-> << [line |-> line_num,
                 what |-> "Converted Timber." \o level
                            \o "() to logger." \o method \o "()"] >>]

timber_branch(tm, lines, line_num) ==
    timber_converted(tm.level, tm.message, level_map(tm.level),
                     extract_method_name(lines, line_num),
                     FirstIn(tm.message, {","}, 1), line_num)

\* The Log branch: message.rsplit(',', 1).
log_converted(level, message, method, method_name, c, line_num) ==
    [text |-> IF method = "error" /\ CountIn(message, {","}) >= 1
              THEN call3(method, method_name,
                         strip(SubSeq(message, 1, c - 1)),
                         strip(SubSeq(message, c + 1, Len(message))))
              ELSE call2(method, method_name, message),
     log |-> << [line |-> line_num,
                 what |-> "Converted Log." \o level
                            \o "() to logger." \o method \o "()"] >>]

log_branch(lm, lines, line_num) ==
    log_converted(lm.level, lm.message, level_map(lm.level),
                  extract_method_name(lines, line_num),
                  LastIn(lm.message, {","}), line_num)

\* convert_log_call(match_obj, line_num): the replacement text and what it
\* appends to changes_made.  lines is self.content.split('\n').
\* tm and lm are the two searches' results.
convert_matched(full_match, tm, lm, line_num, lines) ==
    IF should_remove_log(full_match)
    THEN [text |-> <<>>,
          log |-> << [line |-> line_num, what |-> "REMOVED unnecessary log"] >>]
    ELSE IF tm.at # 0 THEN timber_branch(tm, lines, line_num)
    ELSE IF lm.at # 0 THEN log_branch(lm, lines, line_num)
    ELSE [text |-> full_match, log |-> <<>>]

convert_log_call(full_match, line_num, lines) ==
    convert_matched(full_match, timber_match(full_match), log_match(full_match),
                    line_num, lines)

(***************************************************************************)
(* process_content.                                                        *)
(***************************************************************************)
\* Where a match of Timber\.tag\([^)]+\)\.[deiwv]\([^)]*\) that starts at
\* index p of the line ends, 0 if there is none.
\* q is where the tag's closing parenthesis is.
TimberSpanFrom(line, p, q) ==
    IF q <= p + 1 \/ q >= Len(line) THEN 0
    ELSE IF line[q + 1] \notin TimberLevelOpens THEN 0
    ELSE FirstIn(line, {")"}, q + 2)

TimberSpanEnd(line, p) ==
    IF line[p] # TimberOpen THEN 0
    ELSE TimberSpanFrom(line, p, FirstIn(line, {")"}, p + 1))

\* Where a match of Log\.[deiwv]\([^)]*\) that starts at index p ends.
LogSpanEnd(line, p) ==
    IF line[p] \notin LogOpens THEN 0 ELSE FirstIn(line, {")"}, p + 1)

\* The combined alternation: the Timber alternative is tried first.
FirstNonZero(a, b) == IF a # 0 THEN a ELSE b

SpanEnd(line, p) == FirstNonZero(TimberSpanEnd(line, p), LogSpanEnd(line, p))

\* re.sub(pattern, lambda m: self.convert_log_call(m, line_num), line), from
\* index p on: the matches are replaced left to right and do not overlap.
Both(c, r) == [text |-> c.text \o r.text, log |-> c.log \o r.log]

\* The next index to look at and what the text before it becomes: e is
\* where a match that starts at p ends, 0 if none starts there.
sub_step(line, p, e, line_num, lines) ==
    IF e = 0 THEN [next |-> p + 1, out |-> [text |-> <<line[p]>>, log |-> <<>>]]
    ELSE [next |-> e + 1,
          out |-> convert_log_call(SubSeq(line, p, e), line_num, lines)]

RECURSIVE sub_calls(_, _, _, _)
sub_rest(line, step, line_num, lines) ==
    Both(step.out, sub_calls(line, step.next, line_num, lines))

sub_calls(line, p, line_num, lines) ==
    IF p > Len(line) THEN [text |-> <<>>, log |-> <<>>]
    ELSE sub_rest(line, sub_step(line, p, SpanEnd(line, p), line_num, lines),
                  line_num, lines)

\* 'Timber.tag' in line or re.search(r'Log\.[deiwv]\(', line)
has_marker(line) ==
    InLine("Timber.tag", line) \/ \E j \in 1..Len(line) : line[j] \in LogOpens

\* The loop body without the test for a blank line.
keep_line_always(new_line) == <<new_line>>

\* if new_line.strip(): new_lines.append(new_line)
keep_line(new_line) == IF strip(new_line) # <<>> THEN <<new_line>> ELSE <<>>

\* The loop over enumerate(lines, 1), from line n on.
kept(s) == [text |-> keep_line(s.text), log |-> s.log]

process_line(lines, n) ==
    IF has_marker(lines[n]) THEN kept(sub_calls(lines[n], 1, n, lines))
    ELSE [text |-> <<lines[n]>>, log |-> <<>>]

RECURSIVE process_lines(_, _)
process_lines(lines, n) ==
    IF n > Len(lines) THEN [text |-> <<>>, log |-> <<>>]
    ELSE Both(process_line(lines, n), process_lines(lines, n + 1))

\* '\n'.join(new_lines): no line at all is the empty text, which is one
\* empty line.
join(new_lines) == IF new_lines = <<>> THEN << <<>> >> ELSE new_lines

joined(r) == [text |-> join(r.text), log |-> r.log]

process_content(text) == joined(process_lines(text, 1))

(***************************************************************************)
(* update_imports.                                                         *)
(***************************************************************************)
\* re.sub(<statement> + r'\n', '', content): the statement is cut from the
\* end of every line but the last, and that line is joined with the next.
cut_statement(line, rest, statement) ==
    IF line # <<>> /\ Last(line) = statement
    THEN << Front(line) \o rest[1] >> \o Tail(rest)
    ELSE << line >> \o rest

RECURSIVE remove_statement(_, _)
remove_statement(lines, statement) ==
    IF Len(lines) <= 1 THEN lines
    ELSE cut_statement(lines[1], remove_statement(Tail(lines), statement),
                       statement)

\* The chunks, whole or cut, that start with "import ".
ImportChunks ==
    UNION {Cover(c, 7) : c \in {ImportTimber, ImportLog, ImportStructured, ImportOther}}

\* re.search(r'^import ', content, re.MULTILINE): the line it is on, or 0.
first_import(lines) ==
    IF \E i \in 1..Len(lines) : lines[i] # <<>> /\ lines[i][1] \in ImportChunks
    THEN CHOOSE i \in 1..Len(lines) :
           /\ lines[i] # <<>> /\ lines[i][1] \in ImportChunks
           /\ \A k \in 1..(i - 1) : lines[k] = <<>> \/ lines[k][1] \notin ImportChunks
    ELSE 0

\* The insertion without the test for an import that is already there.
insert_at_always(lines, i) ==
    IF i # 0
    THEN SubSeq(lines, 1, i - 1) \o << <<ImportStructured>> >>
            \o SubSeq(lines, i, Len(lines))
    ELSE lines

insert_at(lines, i) ==
    IF ~InText(ImportStructured, lines) /\ i # 0
    THEN SubSeq(lines, 1, i - 1) \o << <<ImportStructured>> >>
            \o SubSeq(lines, i, Len(lines))
    ELSE lines

insert_import(lines) == insert_at(lines, first_import(lines))

update_imports(text) ==
    insert_import(remove_statement(remove_statement(text, ImportTimber), ImportLog))

(***************************************************************************)
(* extract_class_info.                                                     *)
(***************************************************************************)
\* The chunks, whole or cut, in which class\s+(\w+) matches.
ClassChunks == Cover("class Foo", 7)

\* The name captured by class\s+(\w+) in such a chunk: what follows "class ".
ClassNameOf(tok) == Glue(SubSeq(Chars[tok], 7, Len(Chars[tok])))

\* The first line from line `from` on that holds a chunk of S, 0 if none.
FirstLineWith(lines, S, from) ==
    IF \E i \in from..Len(lines) : FirstIn(lines[i], S, 1) # 0
    THEN CHOOSE i \in from..Len(lines) :
           /\ FirstIn(lines[i], S, 1) # 0
           /\ \A k \in from..(i - 1) : FirstIn(lines[k], S, 1) = 0
    ELSE 0

PathUi == "app/ui/Foo.kt"

PathDb == "app/database/network/FooRepository.kt"

Paths == {PathUi, PathDb}

\* Path(file_path).stem
Stem(path) == CASE path = PathUi -> "Foo" [] path = PathDb -> "FooRepository"

\* The words of the priority list that occur in file_path.lower().
PathWords(path) ==
    CASE path = PathUi -> {}
      [] path = PathDb -> {"database", "repository", "network"}

feature_of(path) ==
    LET has(w) == w \in PathWords(path)
    IN  IF has("dashboard") THEN "LogConfig.FeatureTags.DASHBOARD"
        ELSE IF has("message") \/ has("sms") THEN "LogConfig.FeatureTags.SMS"
        ELSE IF has("transaction") THEN "LogConfig.FeatureTags.TRANSACTION"
        ELSE IF has("categor") THEN "LogConfig.FeatureTags.CATEGORIES"
        ELSE IF has("merchant") THEN "LogConfig.FeatureTags.MERCHANT"
        ELSE IF has("insight") THEN "LogConfig.FeatureTags.INSIGHTS"
        ELSE IF has("database") \/ has("dao") \/ has("repository")
             THEN "LogConfig.FeatureTags.DATABASE"
        ELSE IF has("network") \/ has("api") THEN "LogConfig.FeatureTags.NETWORK"
        ELSE IF has("migration") THEN "LogConfig.FeatureTags.MIGRATION"
        ELSE "LogConfig.FeatureTags.APP"

class_info(text, path, i) ==
    [class_name |-> IF i # 0
                    THEN ClassNameOf(text[i][FirstIn(text[i], ClassChunks, 1)])
                    ELSE Stem(path),
     feature_tag |-> feature_of(path)]

extract_class_info(text, path) ==
    class_info(text, path, FirstLineWith(text, ClassChunks, 1))

(***************************************************************************)
(* add_logger_instance.                                                    *)
(***************************************************************************)
\* '    private val logger = StructuredLogger(<feature_tag>, "<class_name>")'
logger_code(tag, name) ==
    <<"    ", FieldOpen, tag, ",", " ", "\"", name, "\"", ")">>

\* re.search(r'class\s+\w+[^{]*\{', content): where the match ends, as
\* [line, at], [line |-> 0] if there is no match.  [^{]* runs over line ends.
\* bj: the brace on the line of the class word; bi: the next line with one.
brace_at(text, ci, bj, bi) ==
    IF bj # 0 THEN [line |-> ci, at |-> bj]
    ELSE IF bi # 0 THEN [line |-> bi, at |-> FirstIn(text[bi], {"{"}, 1)]
    ELSE [line |-> 0, at |-> 0]

class_from(text, ci) ==
    IF ci = 0 THEN [line |-> 0, at |-> 0]
    ELSE brace_at(text, ci,
                  FirstIn(text[ci], {"{"}, FirstIn(text[ci], ClassChunks, 1) + 1),
                  FirstLineWith(text, {"{"}, ci + 1))

class_match(text) == class_from(text, FirstLineWith(text, ClassChunks, 1))

has_logger(text) ==
    InText("private val logger = StructuredLogger", text)
        \/ InText("private val logger:", text)

insert_logger(text, m, tag, name) ==
    IF has_logger(text) \/ m.line = 0 THEN [text |-> text, log |-> <<>>]
    ELSE [text |-> SubSeq(text, 1, m.line - 1)
                    \o << SubSeq(text[m.line], 1, m.at),
                          logger_code(tag, name),
                          SubSeq(text[m.line], m.at + 1, Len(text[m.line])) >>
                    \o SubSeq(text, m.line + 1, Len(text)),
          log |-> << [line |-> 0, what |-> "Added logger instance to " \o name] >>]

add_logger_instance(text, tag, name) ==
    insert_logger(text, class_match(text), tag, name)

(***************************************************************************)
(* convert: the checks and the pipeline of lines 226-237.                  *)
(***************************************************************************)
\* 'private val logger = StructuredLogger' in self.content
already_migrated(text) == InText("private val logger = StructuredLogger", text)

\* 'Timber' not in ... and 'Log.d' not in ... and 'Log.e' not in ...
no_logging(text) ==
    ~InText("Timber", text) /\ ~InText("Log.d", text) /\ ~InText("Log.e", text)

skipped(text) == already_migrated(text) \/ no_logging(text)

\* extract_class_info, process_content, update_imports, add_logger_instance.
fields(info, p, a) ==
    [content |-> a.text, class_name |-> info.class_name,
     feature_tag |-> info.feature_tag, changes_made |-> p.log \o a.log]

injected(info, p) ==
    fields(info, p, add_logger_instance(update_imports(p.text),
                                        info.feature_tag, info.class_name))

pipeline(text, path) ==
    injected(extract_class_info(text, path), process_content(text))

EmptyText == << <<>> >>

(***************************************************************************)
(* The input texts.  A text is written from a description: a sequence of   *)
(* line descriptions, each a record.  Every text ends with an empty line   *)
(* (the file ends with a line break).                                      *)
(***************************************************************************)
Plain(k) ==
    [k |-> k, form |-> "-", level |-> "-", msg |-> "-",
     exc |-> FALSE, quoted |-> FALSE, rest |-> FALSE]

\* A legacy call on a line of its own: Form A is
\*   Timber.tag(TAG).<level>([e, ]<msg>)      and Form B is
\*   Log.<level>("TAG", <msg>[, e])           (TAG unquoted if ~quoted),
\* followed by ";" if rest.
Call(form, level, msg, exc, quoted, rest) ==
    [k |-> "call", form |-> form, level |-> level, msg |-> msg,
     exc |-> exc, quoted |-> quoted, rest |-> rest]

\* The message texts that hold a noise signature, by the signature.
NoiseChunk(msg) ==
    CASE msg = "sep" -> "============ sync ============"
      [] msg = "debug" -> "[DEBUG] state"
      [] msg = "debug_lc" -> "[debug] state"
      [] msg = "println" -> "println fallback"
      [] msg = "todo" -> "TODO remove"
      [] msg = "testing" -> "Testing sync"
      [] msg = "keys" -> "All keys in prefs"
      [] msg = "json" -> "Inclusion states JSON dump"

NoiseMsgs == {"sep", "debug", "debug_lc", "println", "todo", "testing", "keys", "json"}

MsgChunks(msg) ==
    CASE msg = "plain" -> <<"\"", "boom", "\"">>                     \* "boom"
      [] msg = "comma" -> <<"\"", "a", ",", " ", "b", "\"">>         \* "a, b"
      [] msg = "nested" -> <<"\"", "x", "\"", " ", "+", " ", "f(", ")">>  \* "x" + f()
      [] msg = "late" -> <<"f(", ")", " ", "+", " ", "\"", "[DEBUG] state", "\"">>
      [] OTHER -> <<"\"", NoiseChunk(msg), "\"">>

ExcChunks == <<"e">>

RestChunks(d) == IF d.rest THEN <<";">> ELSE <<>>

RenderCall(d) ==
    IF d.form = "A"
    THEN <<Indent, TimberOpen, "TAG", ")", TimberLevelOpen(d.level)>>
            \o (IF d.exc THEN ExcChunks \o <<",", " ">> ELSE <<>>)
            \o MsgChunks(d.msg) \o <<")">> \o RestChunks(d)
    ELSE <<Indent, LogOpen(d.level)>>
            \o (IF d.quoted THEN <<"\"", "TAG", "\"">> ELSE <<"TAG">>)
            \o <<",", " ">> \o MsgChunks(d.msg)
            \o (IF d.exc THEN <<",", " ">> \o ExcChunks ELSE <<>>)
            \o <<")">> \o RestChunks(d)

RenderLine(d) ==
    CASE d.k = "call" -> RenderCall(d)
      [] d.k = "impT" -> <<ImportTimber>>
      [] d.k = "impL" -> <<ImportLog>>
      [] d.k = "impO" -> <<ImportOther>>
      [] d.k = "impS" -> <<ImportStructured>>
      [] d.k = "comment" -> <<"// uses Timber">>
      [] d.k = "class" -> <<"class Foo", " ", "{">>
      [] d.k = "fieldEq" -> logger_code("LogConfig.FeatureTags.APP", "Foo")
      [] d.k = "fieldColon" -> <<"    ", FieldColon>>
      [] d.k = "fun_load" -> <<"    ", "fun load(", ")", " ", "{">>
      [] d.k = "fun_save" -> <<"    ", "fun save(", ")", " ", "{">>
      [] d.k = "filler" -> <<Indent, "val n = 1">>
      [] d.k = "close" -> <<"}">>
      [] d.k = "blank" -> <<>>

Render(desc) == [i \in 1..Len(desc) |-> RenderLine(desc[i])]

\* <<Plain(k)>> or nothing.
Opt(k) == {<<>>, <<Plain(k)>>}

\* n lines of kind k.
Rep(k, n) == [i \in 1..n |-> Plain(k)]

\* All sequences of at most n elements of S.
SeqUpTo(S, n) == UNION {[1..m -> S] : m \in 0..n}

\* Whole files: imports, a comment, a class with or without a logger field,
\* a function with up to MaxCalls calls.
FileCalls ==
    { Call("A", "d", "plain", FALSE, TRUE, FALSE),
      Call("A", "d", "debug", FALSE, TRUE, FALSE),
      Call("B", "d", "plain", FALSE, TRUE, FALSE),
      Call("B", "i", "plain", FALSE, TRUE, FALSE),
      Call("B", "e", "plain", TRUE, TRUE, FALSE),
      Call("B", "d", "plain", FALSE, FALSE, FALSE) }

FileDescs ==
    { it \o il \o io \o is \o cm \o cl \o fd \o <<Plain("fun_load")>> \o calls
         \o <<Plain("close")>> \o (IF cl = <<>> THEN <<>> ELSE <<Plain("close")>>)
         \o <<Plain("blank")>> :
        it \in Opt("impT"), il \in Opt("impL"), io \in Opt("impO"),
        is \in Opt("impS"), cm \in Opt("comment"), cl \in Opt("class"),
        fd \in Opt("fieldEq") \cup Opt("fieldColon"),
        calls \in SeqUpTo(FileCalls, MaxCalls) }

\* The files of the runs with failures of the file system: the legacy
\* imports or none, a comment, a class, a logger field, at most one call.
IOCalls ==
    { Call("A", "d", "plain", FALSE, TRUE, FALSE),
      Call("B", "i", "plain", FALSE, TRUE, FALSE),
      Call("B", "d", "plain", FALSE, FALSE, FALSE) }

IODescs ==
    { im \o cm \o cl \o fd \o <<Plain("fun_load")>> \o calls
         \o <<Plain("close")>> \o (IF cl = <<>> THEN <<>> ELSE <<Plain("close")>>)
         \o <<Plain("blank")>> :
        im \in {<<>>, <<Plain("impT")>>, <<Plain("impT"), Plain("impO")>>},
        cm \in Opt("comment"), cl \in Opt("class"), fd \in Opt("fieldColon"),
        calls \in SeqUpTo(IOCalls, 1) }

\* Single calls in their surroundings: a declaration on the first line or
\* not, filler lines, a second declaration or not, a noise call that is
\* deleted or not, the call, a trailing comment or not.
LineCalls ==
    { Call(f, l, m, x, TRUE, FALSE) :
        f \in {"A", "B"}, l \in LevelLetters, m \in {"plain", "comma", "nested"},
        x \in BOOLEAN }
    \cup { Call(f, "d", m, FALSE, TRUE, r) :
        f \in {"A", "B"}, m \in NoiseMsgs \cup {"late"}, r \in BOOLEAN }
    \cup { Call(f, l, "plain", FALSE, TRUE, TRUE) :
        f \in {"A", "B"}, l \in LevelLetters }
    \cup { Call("B", l, "plain", FALSE, FALSE, FALSE) : l \in LevelLetters }

NoiseLine == Call("B", "v", "plain", FALSE, TRUE, FALSE)

LineDescs ==
    { f1 \o Rep("filler", g) \o f2 \o nz \o <<c>> \o cm \o <<Plain("blank")>> :
        f1 \in Opt("fun_load"), g \in 0..MaxGap, f2 \in Opt("fun_save"),
        nz \in {<<>>, <<NoiseLine>>}, c \in LineCalls, cm \in Opt("comment") }
    \cup
    { <<Plain("blank"), Plain("fun_load")>> \o Rep("filler", Window - 6 + g)
        \o <<Call("B", "d", "plain", FALSE, TRUE, FALSE), Plain("blank")>> :
        g \in 0..MaxGap }

(***************************************************************************)
(* The state machine: main() makes a LogConverter for the file and calls   *)
(* convert(), and the script may be run again on the same file.            *)
(***************************************************************************)
Fresh ==
    /\ content = EmptyText
    /\ class_name = ""
    /\ feature_tag = ""
    /\ changes_made = <<>>
    /\ rets = <<>>
    /\ hist = <<>>

Init ==
    /\ file_path \in Paths
    /\ src \in FileDescs
    /\ disk = Render(src)
    /\ Fresh

InitCalls ==
    /\ file_path = PathUi
    /\ src \in LineDescs
    /\ disk = Render(src)
    /\ Fresh

InitIO ==
    /\ file_path = PathUi
    /\ src \in IODescs
    /\ disk = Render(src)
    /\ Fresh

Returned(value) ==
    /\ rets' = Append(rets, value)
    /\ hist' = Append(hist, disk)
    /\ UNCHANGED <<file_path, src>>

\* The fields of a converter that returned before extract_class_info.
Unset(text) ==
    /\ content' = text
    /\ class_name' = ""
    /\ feature_tag' = ""
    /\ changes_made' = <<>>

\* The fields of a converter that ran the pipeline on the text it read.
Set(r) ==
    /\ content' = r.content
    /\ class_name' = r.class_name
    /\ feature_tag' = r.feature_tag
    /\ changes_made' = r.changes_made

Piped == Set(pipeline(disk, file_path))

\* convert() with no failure of the file system.
Convert ==
    /\ Len(rets) < MaxRuns
    /\ IF skipped(disk)
       THEN /\ Unset(disk)
            /\ disk' = disk
            /\ Returned(FALSE)
       ELSE /\ Piped
            /\ disk' = content'
            /\ Returned(TRUE)

\* convert() when read_file raises: nothing was read, the except clause
\* returns False.
ConvertReadFails ==
    /\ Len(rets) < MaxRuns
    /\ Unset(EmptyText)
    /\ disk' = disk
    /\ Returned(FALSE)

\* convert() when open(file_path, 'w') raises in write_file: the file is as
\* it was.
ConvertOpenFails ==
    /\ Len(rets) < MaxRuns
    /\ ~skipped(disk)
    /\ Piped
    /\ disk' = disk
    /\ Returned(FALSE)

\* text[:n] for the n that end on line k: after the first j chunks of the
\* line, or inside the next chunk.
UpTo(text, k, j) == SubSeq(text, 1, k - 1) \o << SubSeq(text[k], 1, j) >>

Inside(text, k, j) ==
    { SubSeq(text, 1, k - 1)
        \o << SubSeq(text[k], 1, j - 1) \o <<Glue(SubSeq(Chars[text[k][j]], 1, n))>> >> :
        n \in 1..(Len(Chars[text[k][j]]) - 1) }

\* What a write of the text that fails may leave in the file that
\* open(.., 'w') has truncated: nothing, or any of the text's first
\* characters short of the whole text.
Written(text) ==
    {EmptyText}
        \cup (UNION { {UpTo(text, k, j) : j \in 0..Len(text[k])} : k \in 1..Len(text) }
                \ {text})
        \cup UNION { UNION { Inside(text, k, j) : j \in 1..Len(text[k]) } :
                     k \in 1..Len(text) }

\* convert() when f.write or the close raises in write_file.
ConvertWriteFails ==
    /\ Len(rets) < MaxRuns
    /\ ~skipped(disk)
    /\ Piped
    /\ disk' \in Written(content')
    /\ Returned(FALSE)

Next == Convert

NextIO == Convert \/ ConvertReadFails \/ ConvertOpenFails \/ ConvertWriteFails

Spec == Init /\ [][Next]_vars

SpecCalls == InitCalls /\ [][Next]_vars

SpecIO == InitIO /\ [][NextIO]_vars

\* The text on disk after run k.
After(k) == IF k < Len(hist) THEN hist[k + 1] ELSE disk

(***************************************************************************)
(* What the properties below talk about.                                   *)
(***************************************************************************)
Runs == 1..Len(rets)

ChunksOf(text) == UNION { {text[i][j] : j \in 1..Len(text[i])} : i \in 1..Len(text) }

\* A legacy call of either form starts in the text.
HasLegacyCall(text) == ChunksOf(text) \cap ({TimberOpen} \cup LogOpens) # {}

LoggerOpens == {"logger.debug(", "logger.error(", "logger.info(", "logger.warn("}

HasLoggerCall(text) == ChunksOf(text) \cap LoggerOpens # {}

\* How many lines of the text hold a chunk of S.
LinesWith(text, S) ==
    Cardinality({i \in 1..Len(text) : FirstIn(text[i], S, 1) # 0})

\* The line of src the single-call texts are about: the last call line.
Target == LastIn([i \in 1..Len(src) |-> src[i].k], {"call"})

\* The call's text holds a noise signature.
IsNoise(d) ==
    d.k = "call" /\ (d.msg \in NoiseMsgs \cup {"late"} \/ (d.form = "B" /\ d.level = "v"))

\* The call's text up to its first closing parenthesis after the argument
\* list opens holds a noise signature.
IsMatchedNoise(d) ==
    d.k = "call" /\ (d.msg \in NoiseMsgs \/ (d.form = "B" /\ d.level = "v"))

\* The indices of src, in order, that P does not hold of.
RECURSIVE Without(_, _)
Without(P(_), i) ==
    IF i > Len(src) THEN <<>>
    ELSE (IF P(src[i]) THEN <<>> ELSE <<i>>) \o Without(P, i + 1)

\* Where the argument list of a call starts on its line, and where the first
\* ")" after that is.
ArgsStart(d) == IF d.form = "A" THEN 6 ELSE 3

MatchEnd(d) == FirstIn(RenderCall(d), {")"}, ArgsStart(d))

\* What is left on the line of a call when its matched text is cut out: the
\* indentation and all that follows that ")".
Remainder(d) ==
    <<Indent>> \o SubSeq(RenderCall(d), MatchEnd(d) + 1, Len(RenderCall(d)))

DroppedLine(d) == IsMatchedNoise(d) /\ Remainder(d) = <<Indent>>

\* Where line i of the input is in the output of the line transform.
OutIndex(i) == i - Cardinality({j \in 1..(i - 1) : DroppedLine(src[j])})

\* The first run converted the file.
Converted == rets # <<>> /\ rets[1]

\* The rewritten call the claim of the sections 4.3 and 8 of the
\* specification expects for an error call with a message and an exception.
ExpectedError(d, label) ==
    <<Indent, "logger.error(", "\"", label, "\"", ",", " ">>
        \o MsgChunks(d.msg) \o <<",", " ">> \o ExcChunks \o <<")">> \o RestChunks(d)

IsErrorPair(d) ==
    /\ d.k = "call" /\ d.level = "e" /\ d.exc /\ ~IsNoise(d)
    /\ (d.form = "A" \/ d.quoted)

CanonicalLevel(l) ==
    CASE l = "d" -> "debug" [] l = "v" -> "debug" [] l = "e" -> "error"
      [] l = "i" -> "info" [] l = "w" -> "warn"

\* The call matches its form's pattern (Form B with a quoted tag) and its
\* text holds no noise signature other than, for Form B, its own "Log.v(".
IsRewritable(d) ==
    /\ d.k = "call" /\ d.msg \notin NoiseMsgs \cup {"late"}
    /\ (d.form = "A" \/ d.quoted)

\* The name of the nearest declaration on the lines hi, hi - 1, ..., lo.
RECURSIVE NearestDecl(_, _, _)
NearestDecl(text, hi, lo) ==
    IF hi < lo \/ hi < 1 THEN "unknown"
    ELSE IF FirstIn(text[hi], FunChunks, 1) # 0
         THEN FunName(text[hi][FirstIn(text[hi], FunChunks, 1)])
         ELSE NearestDecl(text, hi - 1, lo)

(***************************************************************************)
(* C1.  Idempotence: a run of convert() that follows a run that converted  *)
(* the file returns False and leaves the text as the earlier run wrote it. *)
(***************************************************************************)
C1_Idempotent ==
    \A k \in Runs : (k >= 2 /\ rets[k - 1]) => (~rets[k] /\ After(k) = After(k - 1))

(***************************************************************************)
(* C2.  Untouched file: a file in which no legacy call of either form      *)
(* occurs is skipped (False) and is the same text after the run, also when *)
(* the word Timber is in a comment or in the legacy import line.           *)
(***************************************************************************)
C2_UntouchedFile ==
    \A k \in Runs : ~HasLegacyCall(hist[k]) => (~rets[k] /\ After(k) = hist[k])

(***************************************************************************)
(* C6.  A file that has no canonical logger field and holds a legacy call  *)
(* of either form at any of the five levels is processed (True) and no     *)
(* legacy call is left in it.                                              *)
(***************************************************************************)
C6_CallsAreProcessed ==
    \A k \in Runs :
        (FieldOpen \notin ChunksOf(hist[k]) /\ HasLegacyCall(hist[k]))
            => (rets[k] /\ ~HasLegacyCall(After(k)))

(***************************************************************************)
(* C10.  No dangling logger reference: a converted file that holds a       *)
(* rewritten call logger.<level>(...) also holds the canonical import line *)
(* and a logger field in one of the two spellings.                         *)
(***************************************************************************)
C10_NoDanglingLogger ==
    \A k \in Runs :
        (rets[k] /\ HasLoggerCall(After(k)))
            => /\ ImportStructured \in ChunksOf(After(k))
               /\ ChunksOf(After(k)) \cap {FieldOpen, FieldColon} # {}

(***************************************************************************)
(* C8.  Per-file atomicity: after convert() returns, the file holds its    *)
(* original text or the complete transformed text, and its original text   *)
(* whenever convert() returned False.                                      *)
(***************************************************************************)
C8_Atomic ==
    \A k \in Runs :
        /\ After(k) \in {hist[k], pipeline(hist[k], file_path).content}
        /\ ~rets[k] => After(k) = hist[k]

(***************************************************************************)
(* C5.  Injection uniqueness: a file that came with at most one canonical  *)
(* logger field and at most one canonical import line holds at most one of *)
(* each after every run, however many calls it has.                        *)
(***************************************************************************)
C5_InjectionUnique ==
    (LinesWith(Render(src), {FieldOpen}) <= 1
        /\ LinesWith(Render(src), {ImportStructured}) <= 1)
    => (LinesWith(disk, {FieldOpen}) <= 1 /\ LinesWith(disk, {ImportStructured}) <= 1)

\* Two runs on a file with two calls that came with neither: both were
\* injected once.
C5_Witness ==
    /\ Len(rets) >= 2 /\ rets[1]
    /\ CountIn([i \in 1..Len(src) |-> src[i].k], {"call"}) >= 2
    /\ ChunksOf(Render(src)) \cap {FieldOpen, ImportStructured} = {}
    /\ LinesWith(disk, {FieldOpen}) = 1
    /\ LinesWith(disk, {ImportStructured}) = 1

(***************************************************************************)
(* C3.  Noise deletion, as claimed: every line that held a call whose text *)
(* matches a noise signature is absent from the output, nothing of it is   *)
(* left, and the other lines that held no call are there in their order.   *)
(***************************************************************************)
C3_NoiseLinesAbsent ==
    Converted =>
        LET keep == Without(IsNoise, 1)
        IN  /\ Len(After(1)) = Len(keep)
            /\ \A o \in 1..Len(keep) :
                  src[keep[o]].k # "call" => After(1)[o] = hist[1][keep[o]]

(***************************************************************************)
(* C3, amended.  A call whose matched text (up to the first ")" after its  *)
(* argument list opens) matches a noise signature is cut out; its line is  *)
(* absent from the output only if nothing but white space is left on it,   *)
(* else what is left of the line stays; the lines that held no call are    *)
(* there unchanged, in their order.                                        *)
(***************************************************************************)
C3_NoiseCallsCut ==
    Converted =>
        LET keep == Without(DroppedLine, 1)
        IN  /\ Len(After(1)) = Len(keep)
            /\ \A o \in 1..Len(keep) :
                  /\ src[keep[o]].k # "call" => After(1)[o] = hist[1][keep[o]]
                  /\ IsMatchedNoise(src[keep[o]])
                        => After(1)[o] = Remainder(src[keep[o]])

\* A converted file in which one noise line went and another stayed as ";".
C3_Witness ==
    /\ Converted
    /\ \E i \in 1..Len(src) : DroppedLine(src[i])
    /\ \E i \in 1..Len(src) : IsMatchedNoise(src[i]) /\ src[i].rest
    /\ Len(After(1)) = Len(hist[1]) - 1

(***************************************************************************)
(* C4.  Error-argument ordering, as claimed: every error call that is not  *)
(* noise and has a message and an exception becomes                        *)
(* logger.error("<ctx>", <message>, <exception>), both passed intact.      *)
(***************************************************************************)
C4_ErrorOrdering ==
    (Converted /\ IsErrorPair(src[Target]))
        => After(1)[OutIndex(Target)]
              = ExpectedError(src[Target], After(1)[OutIndex(Target)][4])

(***************************************************************************)
(* C4, amended.  The same for the calls whose argument text holds no       *)
(* parenthesis: Form A split at the first comma, Form B at the last.       *)
(***************************************************************************)
C4_ErrorOrderingFlat ==
    (Converted /\ IsErrorPair(src[Target]) /\ src[Target].msg \in {"plain", "comma"})
        => After(1)[OutIndex(Target)]
              = ExpectedError(src[Target], After(1)[OutIndex(Target)][4])

\* Timber.tag(TAG).e(e, "a, b") was rewritten to logger.error(.., "a, b", e).
C4_Witness ==
    /\ Converted
    /\ src[Target] = Call("A", "e", "comma", TRUE, TRUE, FALSE)
    /\ SubSeq(After(1)[OutIndex(Target)], 5, 16)
          = <<"\"", ",", " ", "\"", "a", ",", " ", "b", "\"", ",", " ", "e">>

(***************************************************************************)
(* C7.  Level mapping, as claimed: for each of the five letters and each   *)
(* of the two forms a matched call is rewritten to a call of the canonical *)
(* level of the table; a verbose call of either form becomes debug.        *)
(***************************************************************************)
C7_LevelMapping ==
    (Converted /\ IsRewritable(src[Target]))
        => /\ Len(After(1)[OutIndex(Target)]) >= 2
           /\ After(1)[OutIndex(Target)][2]
                 = "logger." \o CanonicalLevel(src[Target].level) \o "("

(***************************************************************************)
(* C7, amended.  The same but for Log.v: a Form B verbose call is noise    *)
(* ("Log.v(" is a noise signature) and is deleted, never rewritten; every  *)
(* rewritten call uses one of debug, error, info, warn.                    *)
(***************************************************************************)
C7_LevelMappingButLogV ==
    (Converted /\ IsRewritable(src[Target]))
        => IF src[Target].form = "B" /\ src[Target].level = "v"
           THEN /\ ~HasLoggerCall(After(1))
                /\ LogOpen("v") \notin ChunksOf(After(1))
           ELSE /\ Len(After(1)[OutIndex(Target)]) >= 2
                /\ After(1)[OutIndex(Target)][2]
                      = "logger." \o CanonicalLevel(src[Target].level) \o "("
                /\ After(1)[OutIndex(Target)][2] \in LoggerOpens

\* Timber.tag(TAG).v("boom") was rewritten to logger.debug(.., "boom").
C7_Witness ==
    /\ Converted
    /\ src[Target] = Call("A", "v", "plain", FALSE, TRUE, FALSE)
    /\ After(1)[OutIndex(Target)][2] = "logger.debug("

(***************************************************************************)
(* C9.  Context resolution: the label of a rewritten call on line n of the *)
(* original text is the name of the nearest declaration on the lines       *)
(* n - 1 down to max(1, n - 50) of that text, "unknown" if there is none;  *)
(* a declaration on the first line, directly above the call, is found.     *)
(***************************************************************************)
C9_NearestDeclaration ==
    (Converted /\ IsRewritable(src[Target]) /\ ~IsNoise(src[Target]))
        => After(1)[OutIndex(Target)][4]
              = NearestDecl(hist[1], Target - 1, Max(1, Target - Window))

====
